---- MODULE Spec2Model ----
(***************************************************************************)
(* A model of vptree-rs: vantage-point tree construction (VPTree::new),    *)
(* the k-nearest-neighbour and radius queries (src/src/vptree.rs), and the *)
(* order-statistic partitioner quick_select_by (src/src/median.rs).        *)
(*                                                                         *)
(* Points are the one-dimensional points of tests/harmonic.rs, here with   *)
(* integer coordinates, under the metric |a - b|.  Sequences are 1-based   *)
(* in TLA+; At, Swap and the index operators below take the source's       *)
(* 0-based indices.  Option<T> is <<>> for None and <<x>> for Some(x).     *)
(***************************************************************************)
EXTENDS Integers, Sequences, FiniteSets

VARIABLES
    phase,      \* the tree machine: "start", "built", "panicked", "returned"
    items,      \* the Vec<T> handed to VPTree::new
    tree,       \* Option<VPTree>: <<>> or <<root node>>
    call,       \* the query made on the tree
    ret,        \* what the query produced: a panic or a Vec<&T>
    pc,         \* position inside quick_select_by
    input,      \* the slice quick_select_by was first called on
    rank,       \* the rank quick_select_by was first called with
    arr,        \* the whole array; the current call works on arr[lo .. lo+n)
    lo,         \* offset of the current (sub)slice in arr
    n,          \* arr.len() of the current call
    k,          \* k of the current call
    small_it,
    large_it

treeVars == <<phase, items, tree, call, ret>>
qsVars == <<pc, input, rank, arr, lo, n, k, small_it, large_it>>
vars == <<phase, items, tree, call, ret, pc, input, rank, arr, lo, n, k, small_it, large_it>>

(***************************************************************************)
(* Bounds of the model.                                                    *)
(***************************************************************************)
MaxCoord == 3       \* points are 0 .. MaxCoord
MaxItems == 4       \* longest input vector of VPTree::new
MaxK == 3           \* largest k of nearest_neighbors
MaxRadius == 3      \* largest radius of within_radius
MaxLen == 4         \* longest slice given to quick_select_by
MaxVal == 3         \* slice elements are 0 .. MaxVal

Points == 0 .. MaxCoord

RECURSIVE SeqsUpTo(_, _)
SeqsUpTo(S, len) ==
    IF len = 0 THEN {<<>>}
    ELSE LET shorter == SeqsUpTo(S, len - 1)
         IN shorter \cup {Append(s, x) : s \in {t \in shorter : Len(t) = len - 1}, x \in S}

\* 0-based access and swap, as in the source.
At(s, i) == s[i + 1]
Swap(s, i, j) == [s EXCEPT ![i + 1] = s[j + 1], ![j + 1] = s[i + 1]]
Last(s) == s[Len(s)]

(***************************************************************************)
(* Distances are floats (F: Float).  The finite ones are integers here;    *)
(* NaN is a value apart from every coordinate, distance, radius and        *)
(* difference of two distances the model can form.  Arithmetic on NaN      *)
(* gives NaN, and every comparison with NaN answers false.                 *)
(***************************************************************************)
NaN == MaxCoord + MaxRadius + 1
IsNaN(x) == x = NaN
FSub(a, b) == IF IsNaN(a) \/ IsNaN(b) THEN NaN ELSE a - b
FGt(a, b) == ~IsNaN(a) /\ ~IsNaN(b) /\ a > b
FLt(a, b) == ~IsNaN(a) /\ ~IsNaN(b) /\ a < b

\* Point(f32): the finite points, and with Point(NaN).
PointsWithNaN == Points \cup {NaN}

(***************************************************************************)
(* The metric of tests/harmonic.rs: |a - b|.                               *)
(***************************************************************************)
distance(a, b) == IF IsNaN(a) \/ IsNaN(b) THEN NaN ELSE IF a >= b THEN a - b ELSE b - a

(***************************************************************************)
(* Tree construction.                                                      *)
(***************************************************************************)
TaggedItem(x, d) == [item |-> x, dist |-> d]

\* The fold of select_vantage_point over items[0 .. upto), from (F::zero(), i).
RECURSIVE FarthestFold(_, _, _)
FarthestFold(its, i, upto) ==
    IF upto = 0 THEN <<0, i>>
    ELSE LET acc == FarthestFold(its, i, upto - 1)
             d == distance(At(its, i).item, At(its, upto - 1).item)
         IN IF FGt(d, acc[1]) THEN <<d, upto - 1>> ELSE acc

\* select_vantage_point with the random draw i: the first item farthest from items[i].
select_vantage_point(its, i) == FarthestFold(its, i, Len(its))[2]

\* Vec::swap_remove: the last element takes the removed element's place.
\* (swap_remove_dropping_last: the last element removed whatever the index.)
swap_remove_dropping_last(its, idx) == SubSeq(its, 1, Len(its) - 1)
swap_remove(its, idx) ==
    SubSeq([its EXCEPT ![idx + 1] = its[Len(its)]], 1, Len(its) - 1)

\* for ti in items: ti.dist = distance(ti.item, vp.item)
Retag(its, vp) == [j \in 1 .. Len(its) |-> TaggedItem(its[j].item, distance(its[j].item, vp))]

RECURSIVE Perms(_)
Perms(s) ==
    IF s = <<>> THEN {<<>>}
    ELSE UNION {{<<s[j]>> \o p : p \in Perms(SubSeq(s, 1, j - 1) \o SubSeq(s, j + 1, Len(s)))}
                : j \in 1 .. Len(s)}

\* order_stat::kth_by(items, kth, by dist): the library is not part of the
\* repository, so every arrangement its contract allows is an outcome: the
\* kth element in sorted position, nothing larger before it, nothing smaller after.
kth_by(its, kth) ==
    {p \in Perms(its) :
        \A j \in 0 .. Len(p) - 1 :
            /\ (j < kth => At(p, j).dist <= At(p, kth).dist)
            /\ (j > kth => At(p, j).dist >= At(p, kth).dist)}

\* kth_by(&mut items, (n-1)/2, ..) and items.split_off((n+1)/2)
KthRank(m) == (m - 1) \div 2
SplitIndex(m) == (m + 1) \div 2

\* mu = items.last().dist  (MuFirst: the first element's distance taken.)
MuFirst(left) == left[1].dist
Mu(left) == Last(left).dist

\* |a, b| a.dist.partial_cmp(&b.dist).unwrap(): kth_by is only called on two
\* or more items, and no selection can place an item it never compared, so a
\* NaN among the distances reaches the closure and the unwrap panics.
KthByPanics(its) == \E j \in 1 .. Len(its) : IsNaN(its[j].dist)

Leaf(c) == [center |-> c, contents |-> <<>>]
\* Not a node: a panic unwinding out of VPNode::new.
Unwound == [center |-> NaN + 1, contents |-> <<>>]
Internal(c, mu, inner, outer) ==
    [center |-> c, contents |-> <<[mu |-> mu, inner |-> inner, outer |-> outer]>>]

\* VPNode::new: the set of nodes it can return, over the random draws of
\* select_vantage_point and the arrangements kth_by may leave.
RECURSIVE VPNode_new(_)
VPNode_new(its) ==
    IF Len(its) = 1 THEN {Leaf(its[1].item)}
    ELSE UNION {
        LET sel_index == select_vantage_point(its, i)
            vp == At(its, sel_index)
            rest == Retag(swap_remove(its, sel_index), vp.item)
            m == Len(rest)
        IN IF m > 1 /\ KthByPanics(rest) THEN {Unwound}
           ELSE UNION {
            LET left == SubSeq(arranged, 1, SplitIndex(m))
                right_items == SubSeq(arranged, SplitIndex(m) + 1, m)
            IN IF left = <<>> THEN {Leaf(vp.item)}
               ELSE {IF inner = Unwound \/ outer = <<Unwound>> THEN Unwound
                     ELSE Internal(vp.item, Mu(left), inner, outer) :
                        inner \in VPNode_new(left),
                        outer \in IF right_items = <<>> THEN {<<>>}
                                  ELSE {<<o>> : o \in VPNode_new(right_items)}}
            : arranged \in IF m > 1 THEN kth_by(rest, KthRank(m)) ELSE {rest}}
        : i \in 0 .. Len(its) - 1}

\* VPTree::new: None for an empty vector.
VPTree_new(v) ==
    IF Len(v) > 0
    THEN {<<root>> : root \in VPNode_new([j \in 1 .. Len(v) |-> TaggedItem(v[j], 0)])}
    ELSE {<<>>}

(***************************************************************************)
(* Queries.                                                                *)
(***************************************************************************)
HeapElem(d, i) == [dist |-> d, item |-> i]

\* std BinaryHeap<HeapElem>, a max-heap on dist, kept as the sequence of its
\* elements: push appends, peek and pop take a greatest element.
PeekIndex(data) ==
    CHOOSE i \in 1 .. Len(data) :
        /\ \A j \in 1 .. Len(data) : data[j].dist <= data[i].dist
        /\ \A j \in 1 .. i - 1 : data[j].dist < data[i].dist
peek(data) == data[PeekIndex(data)]
pop(data) == SubSeq(data, 1, PeekIndex(data) - 1) \o SubSeq(data, PeekIndex(data) + 1, Len(data))
push(data, e) == Append(data, e)

Ok(data) == [panic |-> FALSE, data |-> data]
Panic == [panic |-> TRUE, data |-> <<>>]

\* possible_new_elem of VPNode::nearest_neighbors
\* (NNPossibleNewElemNoMu: the inner ball's radius mu left out of the bound.)
NNPossibleNewElemNoMu(is_inner, d_max, d_center, mu) ==
    (is_inner /\ FGt(d_max, d_center)) \/ (~is_inner /\ FGt(d_max, FSub(mu, d_center)))
NNPossibleNewElem(is_inner, d_max, d_center, mu) ==
    \/ is_inner /\ FGt(d_max, FSub(d_center, mu))
    \/ ~is_inner /\ FGt(d_max, FSub(mu, d_center))

\* possible_new_elem of VPNode::within_radius
\* (WRPossibleNewElemNoMu: the inner ball's radius mu left out of the bound.)
WRPossibleNewElemNoMu(is_inner, radius, d_center, mu) ==
    (is_inner /\ FGt(radius, d_center)) \/ (~is_inner /\ FGt(radius, FSub(mu, d_center)))
WRPossibleNewElem(is_inner, radius, d_center, mu) ==
    \/ is_inner /\ FGt(radius, FSub(d_center, mu))
    \/ ~is_inner /\ FGt(radius, FSub(mu, d_center))

\* [(some_inner, true), (outer, false)], swapped when d_center > mu
VisitOrder(contents, d_center) ==
    LET nodes == <<<<<<contents.inner>>, TRUE>>, <<contents.outer, FALSE>>>>
    IN IF FGt(d_center, contents.mu) THEN <<nodes[2], nodes[1]>> ELSE nodes

\* VPNode::nearest_neighbors; the heap is threaded through as Ok(data) or Panic
\* (heap.peek().unwrap() on an empty heap).
RECURSIVE VPNode_nearest_neighbors(_, _, _, _)
VPNode_nearest_neighbors(self, obj, nn, heap) ==
    LET d_center == distance(obj, self.center)
        elem == HeapElem(d_center, self)
        pushed == IF Len(heap) < nn THEN Ok(push(heap, elem))
                  ELSE IF heap = <<>> THEN Panic
                  ELSE IF FGt(peek(heap).dist, elem.dist) THEN Ok(push(pop(heap), elem))
                  ELSE Ok(heap)
        Visit(st, node_opt, is_inner) ==
            IF st.panic \/ node_opt = <<>> THEN st
            ELSE IF st.data = <<>> THEN Panic
            ELSE IF NNPossibleNewElem(is_inner, peek(st.data).dist, d_center,
                                      self.contents[1].mu)
                 THEN VPNode_nearest_neighbors(node_opt[1], obj, nn, st.data)
                 ELSE st
    IN IF pushed.panic \/ self.contents = <<>> THEN pushed
       ELSE LET nodes == VisitOrder(self.contents[1], d_center)
                first == Visit(pushed, nodes[1][1], nodes[1][2])
            IN Visit(first, nodes[2][1], nodes[2][2])

\* if d_center < radius { v.push(HeapElem::new(d_center, &self)); }
PushIfWithin(v, d_center, radius, self) ==
    IF FLt(d_center, radius) THEN Append(v, HeapElem(d_center, self)) ELSE v

\* VPNode::within_radius
RECURSIVE VPNode_within_radius(_, _, _, _)
VPNode_within_radius(self, obj, radius, v) ==
    LET d_center == distance(obj, self.center)
        v1 == PushIfWithin(v, d_center, radius, self)
        Visit(vv, node_opt, is_inner) ==
            IF node_opt = <<>> THEN vv
            ELSE IF WRPossibleNewElem(is_inner, radius, d_center, self.contents[1].mu)
                 THEN VPNode_within_radius(node_opt[1], obj, radius, vv)
                 ELSE vv
    IN IF self.contents = <<>> THEN v1
       ELSE LET nodes == VisitOrder(self.contents[1], d_center)
                first == Visit(v1, nodes[1][1], nodes[1][2])
            IN Visit(first, nodes[2][1], nodes[2][2])

\* Ascending by dist, equal elements keeping their order.
RECURSIVE SortedByDist(_)
SortedByDist(s) ==
    IF s = <<>> THEN <<>>
    ELSE LET rest == SortedByDist(SubSeq(s, 1, Len(s) - 1))
             x == Last(s)
             pos == Cardinality({j \in 1 .. Len(rest) : rest[j].dist <= x.dist})
         IN SubSeq(rest, 1, pos) \o <<x>> \o SubSeq(rest, pos + 1, Len(rest))

\* (Unsorted: the order of the traversal kept.)
Unsorted(s) == s
\* elems.sort() of VPTree::within_radius
sort(elems) == SortedByDist(elems)
\* heap.into_sorted_vec() and heap.into_vec() of VPTree::nearest_neighbors
into_sorted_vec(heap) == SortedByDist(heap)
into_vec(heap) == heap

Centers(v) == [j \in 1 .. Len(v) |-> v[j].item.center]

Returned(v) == [panic |-> FALSE, value |-> v]
Panicked == [panic |-> TRUE, value |-> <<>>]

VPTree_within_radius(root, query, radius, sorted) ==
    LET elems == VPNode_within_radius(root, query, radius, <<>>)
    IN Returned(Centers(IF sorted THEN sort(elems) ELSE elems))

VPTree_nearest_neighbor(root, query) ==
    LET heap == VPNode_nearest_neighbors(root, query, 1, <<>>)
    IN IF heap.panic \/ heap.data = <<>> THEN Panicked
       ELSE Returned(<<peek(heap.data).item.center>>)

VPTree_nearest_neighbors(root, query, kk, sorted) ==
    LET heap == VPNode_nearest_neighbors(root, query, kk, <<>>)
    IN IF heap.panic THEN Panicked
       ELSE Returned(Centers(IF sorted THEN into_sorted_vec(heap.data)
                             ELSE into_vec(heap.data)))

(***************************************************************************)
(* The tree machine: one construction, then one query on the built tree.   *)
(***************************************************************************)
NoCall == [op |-> "none", query |-> 0, k |-> 0, radius |-> 0, sorted |-> FALSE]
NoRet == Returned(<<>>)

QSIdle ==
    /\ pc = "idle" /\ input = <<>> /\ rank = 0 /\ arr = <<>>
    /\ lo = 0 /\ n = 0 /\ k = 0 /\ small_it = 0 /\ large_it = 0

Init ==
    /\ phase = "start" /\ items = <<>> /\ tree = <<>>
    /\ call = NoCall /\ ret = NoRet
    /\ QSIdle

\* VPTree::new on a vector over the points P: a tree, None, or a panic
\* (phase "panicked", nothing returned).
NewOver(P) ==
    /\ phase = "start"
    /\ \E v \in SeqsUpTo(P, MaxItems) :
        /\ items' = v
        /\ \E built \in VPTree_new(v) :
            IF built = <<Unwound>>
            THEN tree' = <<>> /\ phase' = "panicked"
            ELSE tree' = built /\ phase' = "built"
    /\ UNCHANGED <<call, ret>>
    /\ UNCHANGED qsVars

NearestNeighborOver(P) ==
    /\ phase = "built" /\ tree # <<>>
    /\ \E q \in P :
        /\ call' = [NoCall EXCEPT !.op = "nearest_neighbor", !.query = q]
        /\ ret' = VPTree_nearest_neighbor(tree[1], q)
    /\ phase' = "returned"
    /\ UNCHANGED <<items, tree>>
    /\ UNCHANGED qsVars

NearestNeighborsOver(P) ==
    /\ phase = "built" /\ tree # <<>>
    /\ \E q \in P, kk \in 0 .. MaxK, sorted \in BOOLEAN :
        /\ call' = [NoCall EXCEPT !.op = "nearest_neighbors", !.query = q,
                                  !.k = kk, !.sorted = sorted]
        /\ ret' = VPTree_nearest_neighbors(tree[1], q, kk, sorted)
    /\ phase' = "returned"
    /\ UNCHANGED <<items, tree>>
    /\ UNCHANGED qsVars

WithinRadiusOver(P) ==
    /\ phase = "built" /\ tree # <<>>
    /\ \E q \in P, radius \in 0 .. MaxRadius, sorted \in BOOLEAN :
        /\ call' = [NoCall EXCEPT !.op = "within_radius", !.query = q,
                                  !.radius = radius, !.sorted = sorted]
        /\ ret' = VPTree_within_radius(tree[1], q, radius, sorted)
    /\ phase' = "returned"
    /\ UNCHANGED <<items, tree>>
    /\ UNCHANGED qsVars

\* The tree over finite points: a valid metric.
New == NewOver(Points)
NearestNeighbor == NearestNeighborOver(Points)
NearestNeighbors == NearestNeighborsOver(Points)
WithinRadius == WithinRadiusOver(Points)

Next == New \/ NearestNeighbor \/ NearestNeighbors \/ WithinRadius

Spec == Init /\ [][Next]_vars

\* The same machine with Point(NaN) among the stored and the query points.
NewNaN == NewOver(PointsWithNaN)
NearestNeighborNaN == NearestNeighborOver(PointsWithNaN)
NearestNeighborsNaN == NearestNeighborsOver(PointsWithNaN)
WithinRadiusNaN == WithinRadiusOver(PointsWithNaN)

NextNaN == NewNaN \/ NearestNeighborNaN \/ NearestNeighborsNaN \/ WithinRadiusNaN

SpecNaN == Init /\ [][NextNaN]_vars

(***************************************************************************)
(* quick_select_by (src/src/median.rs), with f = (a <= b), one action per  *)
(* step of its body.  The recursive call is the function's last statement  *)
(* and works on a subslice: it is modelled by narrowing the window         *)
(* arr[lo .. lo+n) and re-entering.  Slice(i) is arr[i] of the current     *)
(* call.                                                                   *)
(***************************************************************************)
f(a, b) == a <= b

Slice(i) == arr[lo + i + 1]
SliceSwap(a, i, j) == Swap(a, lo + i, lo + j)

\* small_median_by on a three-element probe <<a0, a1, a2>>
small_median_by(a0, a1, a2) ==
    IF f(a1, a2)
    THEN IF f(a1, a0) THEN (IF f(a0, a2) THEN 0 ELSE 2) ELSE 1
    ELSE IF f(a2, a0) THEN (IF f(a0, a1) THEN 0 ELSE 1) ELSE 2

\* k of the recursive call on arr[(large_it + 1)..]
RightRank(kk, li) == kk - li - 1

\* Where the pivot goes once the pointers have crossed: arr.swap(0, large_it).
\* (PivotSlotSmall: the pivot swapped to where the left pointer stopped.)
PivotSlotSmall(si, li) == si
PivotSlot(si, li) == li

InitQS ==
    /\ phase = "start" /\ items = <<>> /\ tree = <<>>
    /\ call = NoCall /\ ret = NoRet
    /\ pc = "enter"
    /\ input \in SeqsUpTo(0 .. MaxVal, MaxLen) \ {<<>>}
    /\ rank \in 0 .. Len(input) - 1
    /\ arr = input
    /\ lo = 0 /\ n = Len(input) /\ k = rank
    /\ small_it = 0 /\ large_it = 0

\* if n <= 1 { return; }
QSReturnSmall ==
    /\ pc = "enter" /\ n <= 1
    /\ pc' = "done"
    /\ UNCHANGED <<input, rank, arr, lo, n, k, small_it, large_it>>
    /\ UNCHANGED treeVars

\* if n == 2 { if f(&arr[1], &arr[0]) { arr.swap(0, 1); } return; }
QSOrderPair ==
    /\ pc = "enter" /\ n = 2
    /\ arr' = IF f(Slice(1), Slice(0)) THEN SliceSwap(arr, 0, 1) ELSE arr
    /\ pc' = "done"
    /\ UNCHANGED <<input, rank, lo, n, k, small_it, large_it>>
    /\ UNCHANGED treeVars

\* The three random swaps, the median of the probe moved to arr[0], and the
\* scan pointers set.
QSChoosePivot ==
    /\ pc = "enter" /\ n >= 3
    /\ \E r0 \in 0 .. n - 1, r1 \in 1 .. n - 1, r2 \in 2 .. n - 1 :
        LET a1 == SliceSwap(arr, 0, r0)
            a2 == SliceSwap(a1, 1, r1)
            a3 == SliceSwap(a2, 2, r2)
            mid_idx == small_median_by(a3[lo + 1], a3[lo + 2], a3[lo + 3])
        IN arr' = SliceSwap(a3, 0, mid_idx)
    /\ small_it' = 1
    /\ large_it' = n - 1
    /\ pc' = "scan_small"
    /\ UNCHANGED <<input, rank, lo, n, k>>
    /\ UNCHANGED treeVars

\* loop { if f(&arr[0], &arr[small_it]) { break; } small_it += 1; }
\* An index outside the slice panics.
QSScanSmall ==
    /\ pc = "scan_small"
    /\ IF small_it >= n
       THEN pc' = "panic" /\ UNCHANGED small_it
       ELSE IF f(Slice(0), Slice(small_it))
            THEN pc' = "scan_large" /\ UNCHANGED small_it
            ELSE pc' = "scan_small" /\ small_it' = small_it + 1
    /\ UNCHANGED <<input, rank, arr, lo, n, k, large_it>>
    /\ UNCHANGED treeVars

\* loop { if f(&arr[large_it], &arr[0]) { break; } large_it -= 1; }
\* large_it is a usize: stepping below 0 overflows or indexes outside the slice.
QSScanLarge ==
    /\ pc = "scan_large"
    /\ IF f(Slice(large_it), Slice(0))
       THEN pc' = "compare" /\ UNCHANGED large_it
       ELSE IF large_it = 0
            THEN pc' = "panic" /\ UNCHANGED large_it
            ELSE pc' = "scan_large" /\ large_it' = large_it - 1
    /\ UNCHANGED <<input, rank, arr, lo, n, k, small_it>>
    /\ UNCHANGED treeVars

\* if large_it <= small_it { break; } arr.swap(small_it, large_it);
QSCompare ==
    /\ pc = "compare"
    /\ IF large_it <= small_it
       THEN pc' = "place" /\ UNCHANGED arr
       ELSE pc' = "scan_small" /\ arr' = SliceSwap(arr, small_it, large_it)
    /\ UNCHANGED <<input, rank, lo, n, k, small_it, large_it>>
    /\ UNCHANGED treeVars

\* arr.swap(0, large_it), then the recursion on at most one side.
QSPlace ==
    /\ pc = "place"
    /\ arr' = SliceSwap(arr, 0, PivotSlot(small_it, large_it))
    /\ IF large_it > k
       THEN /\ n' = large_it
            /\ pc' = "enter"
            /\ UNCHANGED <<lo, k>>
       ELSE IF k > large_it
            THEN /\ lo' = lo + large_it + 1
                 /\ n' = n - (large_it + 1)
                 /\ k' = RightRank(k, large_it)
                 /\ pc' = "enter"
            ELSE /\ pc' = "done"
                 /\ UNCHANGED <<lo, n, k>>
    /\ UNCHANGED <<input, rank, small_it, large_it>>
    /\ UNCHANGED treeVars

NextQS ==
    \/ QSReturnSmall \/ QSOrderPair \/ QSChoosePivot
    \/ QSScanSmall \/ QSScanLarge \/ QSCompare \/ QSPlace

SpecQS == InitQS /\ [][NextQS]_vars

\* The function's body runs on: no step of it is postponed forever.
FairSpecQS == SpecQS /\ WF_vars(NextQS)

(***************************************************************************)
(* Properties of the tree and its queries.                                 *)
(***************************************************************************)
Min(a, b) == IF a <= b THEN a ELSE b

Count(s, x) == Cardinality({j \in 1 .. Len(s) : s[j] = x})
SameBag(s, t) == Len(s) = Len(t) /\ \A j \in 1 .. Len(s) : Count(s, s[j]) = Count(t, s[j])

RECURSIVE Ascending(_)
Ascending(s) ==
    IF s = <<>> THEN <<>>
    ELSE LET rest == Ascending(SubSeq(s, 1, Len(s) - 1))
             pos == Cardinality({j \in 1 .. Len(rest) : rest[j] <= Last(s)})
         IN SubSeq(rest, 1, pos) \o <<Last(s)>> \o SubSeq(rest, pos + 1, Len(rest))

DistsTo(q, s) == [j \in 1 .. Len(s) |-> distance(q, s[j])]

\* The brute-force scan: the distances of the kk points of s nearest to q.
BruteForceNearest(q, s, kk) == SubSeq(Ascending(DistsTo(q, s)), 1, Min(kk, Len(s)))

PairwiseDistinct(s) == \A i, j \in 1 .. Len(s) : i # j => distance(s[i], s[j]) > 0

\* The centers of a subtree, in pre-order.
RECURSIVE CentersOf(_)
CentersOf(node) ==
    IF node.contents = <<>> THEN <<node.center>>
    ELSE <<node.center>> \o CentersOf(node.contents[1].inner)
         \o (IF node.contents[1].outer = <<>> THEN <<>>
             ELSE CentersOf(node.contents[1].outer[1]))

RECURSIVE Nodes(_)
Nodes(node) ==
    IF node.contents = <<>> THEN {node}
    ELSE {node} \cup Nodes(node.contents[1].inner)
         \cup (IF node.contents[1].outer = <<>> THEN {}
               ELSE Nodes(node.contents[1].outer[1]))

InnerWithinMu(node) ==
    \A j \in 1 .. Len(CentersOf(node.contents[1].inner)) :
        distance(node.center, CentersOf(node.contents[1].inner)[j]) <= node.contents[1].mu
OuterDists(node) ==
    IF node.contents[1].outer = <<>> THEN <<>>
    ELSE DistsTo(node.center, CentersOf(node.contents[1].outer[1]))

NearestNeighborsReturned ==
    phase = "returned" /\ call.op = "nearest_neighbors"
WithinRadiusReturned ==
    phase = "returned" /\ call.op = "within_radius"

\* C1: for k >= 1, the distances to the query of the items nearest_neighbors
\* returns are the min(k, |S|) smallest distances of a brute-force scan of S.
C1_KNearestMatchesBruteForce ==
    (NearestNeighborsReturned /\ call.k >= 1) =>
        /\ ~ret.panic
        /\ Ascending(DistsTo(call.query, ret.value))
               = BruteForceNearest(call.query, items, call.k)

\* C2: for k >= 1, nearest_neighbors returns exactly min(k, |S|) items, and every
\* stored point exactly once when k exceeds the number of stored points.
C2_KNearestCardinality ==
    (NearestNeighborsReturned /\ call.k >= 1) =>
        /\ ~ret.panic
        /\ Len(ret.value) = Min(call.k, Len(items))
        /\ (call.k > Len(items) => SameBag(ret.value, items))

\* C3: within_radius returns exactly the stored points at distance < radius
\* from the query, each once.
C3_WithinRadiusExact ==
    WithinRadiusReturned =>
        /\ ~ret.panic
        /\ \A p \in Points :
            Count(ret.value, p) =
                IF distance(call.query, p) < call.radius THEN Count(items, p) ELSE 0

C3_Witness ==
    /\ WithinRadiusReturned
    /\ Len(items) = 3
    /\ Len(ret.value) = 1
    /\ \E j \in 1 .. Len(items) : distance(call.query, items[j]) = call.radius

\* C4: when the stored points are pairwise distinct, nearest_neighbor of a
\* stored point returns that point.
C4_SelfNearest ==
    (/\ phase = "returned" /\ call.op = "nearest_neighbor"
     /\ PairwiseDistinct(items)
     /\ \E j \in 1 .. Len(items) : items[j] = call.query) =>
        ret = Returned(<<call.query>>)

\* The stored point asked for is a leaf of the outer subtree of the root.
C4_Witness ==
    /\ phase = "returned" /\ call.op = "nearest_neighbor"
    /\ PairwiseDistinct(items) /\ Len(items) = 3
    /\ tree[1].contents[1].outer # <<>>
    /\ tree[1].contents[1].outer[1].center = call.query
    /\ ret = Returned(<<call.query>>)

\* C5: nearest_neighbors with k = 0 completes normally and returns an empty
\* sequence.
C5_KZeroReturnsEmpty ==
    (NearestNeighborsReturned /\ call.k = 0) => ret = Returned(<<>>)

\* C7: with sorted = true, the sequence nearest_neighbors or within_radius
\* returns is in non-decreasing order of distance from the query.
C7_SortedAscending ==
    (/\ NearestNeighborsReturned \/ WithinRadiusReturned
     /\ call.sorted /\ ~ret.panic) =>
        \A j \in 1 .. Len(ret.value) - 1 :
            distance(call.query, ret.value[j]) <= distance(call.query, ret.value[j + 1])

\* Both queries returned three items at three different distances, sorted.
C7_Witness ==
    /\ NearestNeighborsReturned \/ WithinRadiusReturned
    /\ call.sorted /\ ~ret.panic
    /\ Len(ret.value) = 3
    /\ distance(call.query, ret.value[1]) < distance(call.query, ret.value[2])
    /\ distance(call.query, ret.value[2]) < distance(call.query, ret.value[3])
    /\ tree[1].center = ret.value[3]

C9_TreeHoldsInput ==
    phase = "built" =>
        /\ (tree = <<>>) = (items = <<>>)
        /\ tree # <<>> =>
            /\ SameBag(CentersOf(tree[1]), items)
            /\ (Len(items) >= 2 => tree[1].contents # <<>>)

C9_Witness ==
    /\ phase = "built" /\ Len(items) = 3
    /\ items[1] = items[3] /\ items[1] # items[2]
    /\ tree[1].contents[1].outer # <<>>
    /\ SameBag(CentersOf(tree[1]), items)

(***************************************************************************)
(* Properties of quick_select_by.                                          *)
(***************************************************************************)
\* C6: whenever quick_select_by returns, arr is a permutation of the input,
\* no element before index k is greater than arr[k] and no element after it is
\* smaller.
C6_QuickSelectPartitions ==
    pc = "done" =>
        /\ SameBag(arr, input)
        /\ \A i \in 0 .. Len(arr) - 1 :
            /\ (i < rank => At(arr, i) <= At(arr, rank))
            /\ (i > rank => At(arr, rank) <= At(arr, i))

\* A four-element slice that had to be rearranged, with the recursion taken
\* into the part right of the pivot.
C6_Witness ==
    /\ pc = "done"
    /\ Len(input) = 4 /\ arr # input
    /\ lo > 0 /\ rank = 2
    /\ At(input, rank) > At(arr, rank)

\* C10: quick_select_by terminates on every input, the scan pointers never
\* leaving the slice.
C10_QuickSelectTerminates ==
    /\ <>(pc = "done")
    /\ [](pc # "panic")

(***************************************************************************)
(* Properties of the tree with NaN distances.                              *)
(***************************************************************************)
\* VPTree::new compared a NaN distance: with two or more items, one of them
\* Point(NaN), select_vantage_point computes the distance from the drawn item
\* to every item and tests d > acc.0 on each.
NaNComparedByNew ==
    Len(items) >= 2 /\ \E j \in 1 .. Len(items) : IsNaN(items[j])

\* The query compared a NaN distance at the root: d_center < radius in
\* within_radius, d_center > mu in either traversal of a root with a split
\* (with k = 0 nearest_neighbors panics before it compares any distance).
NaNComparedByQuery ==
    /\ phase = "returned"
    /\ LET d_center == distance(call.query, tree[1].center)
       IN \/ call.op = "within_radius" /\ IsNaN(d_center)
          \/ /\ tree[1].contents # <<>>
             /\ IsNaN(d_center) \/ IsNaN(tree[1].contents[1].mu)
             /\ call.op = "nearest_neighbors" => call.k >= 1

\* C11: when a distance compared during VPTree::new or during a query is NaN,
\* the operation panics: it returns neither a tree nor a query result.
C11_NaNFailsLoudly ==
    /\ (phase # "start" /\ NaNComparedByNew) => phase = "panicked"
    /\ NaNComparedByQuery => ret.panic

====
